---- MODULE Spec2Model ----
(***************************************************************************)
(* Model of monitor.py: a directory watcher that forwards file-creation    *)
(* events through a queue.Queue to a single worker thread, which POSTs one *)
(* notification per event to a Discord webhook.                            *)
(*                                                                         *)
(* Threads: main (main()), the watchdog observer thread (which calls       *)
(* NewFileHandler.on_created), and the worker thread (worker()).           *)
(* Strings the code inspects character by character (paths, the            *)
(* Retry-After header) are sequences of one-character strings.             *)
(* Durations are integers in milliseconds.                                 *)
(***************************************************************************)
EXTENDS Integers, Sequences, FiniteSets, TLC

\* ---------------------------------------------------------------- bounds
\* number of creation events the filesystem reports in one run
MaxEvents == 2
\* number of POST attempts the endpoint lets one delivery take
MaxAttempts == 3

\* length of the part of a path after the watch directory, in UrlSpec
MaxRest == 5

\* ------------------------------------------------------ program constants
\* time.sleep(5) after a transport error, in milliseconds
TransportRetryWait == 5000
\* wait_seconds = 2.0 when Retry-After is missing or invalid, in milliseconds
DefaultRateLimitWait == 2000

\* "http://192.168.5.22:8080/files/hdd2/Octocrate"
ExternalBase ==
    << "h","t","t","p",":","/","/","1","9","2",".","1","6","8",".","5",".",
       "2","2",":","8","0","8","0","/","f","i","l","e","s","/","h","d","d",
       "2","/","O","c","t","o","c","r","a","t","e" >>

\* the text file_path.replace removes: "/data"
StrippedPrefix == << "/","d","a","t","a" >>

\* os.getenv("WATCH_DIRECTORY", "/data"): the default, and another directory
DefaultWatchDir == << "/","d","a","t","a" >>
WatchDirs == { DefaultWatchDir, << "/","s","r","v" >> }

\* ------------------------------------------------------------- input sets
\* src_path values of the creation events: the files /data/a and /data/b c
Paths == { << "/","d","a","t","a","/","a" >>,
           << "/","d","a","t","a","/","b"," ","c" >> }

\* UrlSpec: the part of src_path after the watch directory, "/" and up to
\* MaxRest - 1 further characters, enough to spell "/data" again
RestChars == { "/", "d", "a", "t", " " }
Rests ==
    { r \in UNION { [ 1..n -> RestChars ] : n \in 1..MaxRest } : r[1] = "/" }

\* src_path of the creation events for directories: /data/s
DirPaths == { << "/","d","a","t","a","/","s" >> }

\* os.getenv("DISCORD_WEBHOOK_URL"): unset (None), empty, or a URL
UrlUnset == "<unset>"
WebhookUrls == { UrlUnset, "", "https://discord/hook" }

\* Retry-After header of a 429 response: <<>> is "no header", <<s>> is the
\* header with text s
NoHeader == << >>
HeaderTexts == { << "1",".","5" >>, << "a","b","c" >>,
                 << "-","1" >>, << "n","a","n" >>, << "i","n","f" >> }
Headers == { NoHeader } \cup { << h >> : h \in HeaderTexts }

\* HTTP statuses the endpoint answers with
Statuses == { 200, 204, 429, 500 }

\* --------------------------------------------------------------- helpers
Digits == { "0","1","2","3","4","5","6","7","8","9" }

DigitVal(c) ==
    CASE c = "0" -> 0 [] c = "1" -> 1 [] c = "2" -> 2 [] c = "3" -> 3
      [] c = "4" -> 4 [] c = "5" -> 5 [] c = "6" -> 6 [] c = "7" -> 7
      [] c = "8" -> 8 [] c = "9" -> 9

RECURSIVE DigitsVal(_)
\* value of a sequence of decimal digits
DigitsVal(s) ==
    IF s = << >> THEN 0
    ELSE 10 * DigitsVal(SubSeq(s, 1, Len(s) - 1)) + DigitVal(s[Len(s)])

AllDigits(s) == \A i \in 1..Len(s) : s[i] \in Digits

RECURSIVE Pow10(_)
Pow10(n) == IF n = 0 THEN 1 ELSE 10 * Pow10(n - 1)

\* a float: kind "fin" with milli = value * 1000, "inf" with milli = sign,
\* or "nan"; kind "err" is float() raising TypeError / ValueError
Fin(m) == [ kind |-> "fin", milli |-> m ]
FloatErr == [ kind |-> "err", milli |-> 0 ]

\* index of the first "." in s, or 0
DotIndex(s) ==
    IF \E i \in 1..Len(s) : s[i] = "."
    THEN CHOOSE i \in 1..Len(s) : s[i] = "." /\ \A j \in 1..(i - 1) : s[j] # "."
    ELSE 0

\* float() of an unsigned text: inf, nan, or digits[.digits] with at most
\* three fractional digits
ParseUnsigned(s) ==
    IF s = << "i","n","f" >> THEN [ kind |-> "inf", milli |-> 1 ]
    ELSE IF s = << "n","a","n" >> THEN [ kind |-> "nan", milli |-> 0 ]
    ELSE LET d == DotIndex(s)
             ip == IF d = 0 THEN s ELSE SubSeq(s, 1, d - 1)
             fp == IF d = 0 THEN << >> ELSE SubSeq(s, d + 1, Len(s))
         IN IF /\ AllDigits(ip) /\ AllDigits(fp)
               /\ Len(ip) + Len(fp) > 0 /\ Len(fp) <= 3
            THEN Fin(DigitsVal(ip) * 1000 + DigitsVal(fp) * Pow10(3 - Len(fp)))
            ELSE FloatErr

\* float(retry_after): None raises TypeError, a text that is not a number
\* raises ValueError, otherwise the signed value
PyFloat(h) ==
    IF h = NoHeader THEN FloatErr
    ELSE LET s == h[1]
         IN IF s = << >> THEN FloatErr
            ELSE IF s[1] \in { "-", "+" }
                 THEN LET u == ParseUnsigned(Tail(s))
                      IN IF s[1] = "-" /\ u.kind # "err"
                         THEN [ u EXCEPT !.milli = 0 - u.milli ]
                         ELSE u
                 ELSE ParseUnsigned(s)

\* wait_seconds of lines 99-103
WaitSeconds(h) ==
    IF PyFloat(h).kind = "err" THEN Fin(DefaultRateLimitWait) ELSE PyFloat(h)

\* time.sleep(v) raises ValueError for a negative or NaN argument and
\* OverflowError for an infinite one
SleepRaises(v) == v.kind # "fin" \/ v.milli < 0

IsPrefixAt(s, i, pat) ==
    /\ i + Len(pat) - 1 <= Len(s)
    /\ \A k \in 1..Len(pat) : s[i + k - 1] = pat[k]

RECURSIVE ReplaceFrom(_, _, _, _)
\* str.replace(old, new) applied to s from index i on: every
\* non-overlapping occurrence of old, left to right
ReplaceFrom(s, i, old, new) ==
    IF i > Len(s) THEN << >>
    ELSE IF IsPrefixAt(s, i, old)
         THEN new \o ReplaceFrom(s, i + Len(old), old, new)
         ELSE << s[i] >> \o ReplaceFrom(s, i + 1, old, new)

Replace(s, old, new) == ReplaceFrom(s, 1, old, new)

\* line 79: the link embedded in the payload
BuildUrl(file_path) ==
    Replace(ExternalBase \o Replace(file_path, StrippedPrefix, << >>),
            << " " >>, << "%","2","0" >>)

\* ---------------------------------------------------------------- state
VARIABLES
    WEBHOOK_URL,      \* module global, line 47
    dirExists,        \* os.path.isdir(MONITOR_DIR)
    mainPc,           \* position of main()
    observer,         \* watchdog observer thread: unstarted/running/stopping/stopped
    queueCreated,     \* event_queue = Queue() has run
    queue,            \* items of event_queue not yet dequeued
    unfinished_tasks, \* Queue.unfinished_tasks
    workerPc,         \* position of worker()
    path,             \* worker's local path / send_discord_message's file_path
    url,              \* send_discord_message's local url
    log,              \* POST attempts of the current delivery, with their outcome
    sleeps,           \* completed time.sleep durations of the current delivery
    wait,             \* argument of the pending time.sleep
    puts,             \* history: every item ever put on the queue
    called,           \* history: paths send_discord_message was called with
    ended,            \* history: number of send_discord_message calls that returned
    events,           \* number of creation events reported so far
    MONITOR_DIR,      \* module global, line 48
    event,            \* history: the event of the latest on_created call
    early,            \* history: file events put before the worker's first get returned
    posted            \* history: (file_path, url) of every POST made

vars == << WEBHOOK_URL, dirExists, mainPc, observer, queueCreated, queue,
           unfinished_tasks, workerPc, path, url, log, sleeps, wait, puts,
           called, ended, events, MONITOR_DIR, event, early, posted >>

mainVars == << mainPc, observer, queueCreated >>
cfgVars == << WEBHOOK_URL, dirExists, MONITOR_DIR >>
obsVars == << event, early >>
sendVars == << path, url, log, sleeps, wait, called, ended, posted >>

\* the event object passed to on_created; NoEvent before the first call
Event(p, d) == [ src_path |-> p, is_directory |-> d ]
NoEvent == Event(<< >>, FALSE)

\* queue items: a file path, or the sentinel None
FileItem(p) == [ isNone |-> FALSE, path |-> p ]
Sentinel == [ isNone |-> TRUE, path |-> << >> ]

\* outcomes of requests.post
Raised == [ raised |-> TRUE, status |-> 0, header |-> NoHeader ]
Response(st, h) == [ raised |-> FALSE, status |-> st, header |-> h ]

\* validate_config testing WEBHOOK_URL against None only
validate_config_NoneOnly(webhook, isdir) ==
    IF webhook = UrlUnset THEN FALSE
    ELSE IF ~isdir THEN FALSE
    ELSE TRUE

\* lines 51-65
validate_config(webhook, isdir) ==
    IF webhook = UrlUnset \/ webhook = "" THEN FALSE
    ELSE IF ~isdir THEN FALSE
    ELSE TRUE

Init ==
    /\ WEBHOOK_URL \in WebhookUrls
    /\ dirExists \in BOOLEAN
    /\ mainPc = "validate"
    /\ observer = "unstarted"
    /\ queueCreated = FALSE
    /\ queue = << >>
    /\ unfinished_tasks = 0
    /\ workerPc = "unstarted"
    /\ path = << >>
    /\ url = << >>
    /\ log = << >>
    /\ sleeps = << >>
    /\ wait = Fin(0)
    /\ puts = << >>
    /\ called = << >>
    /\ ended = 0
    /\ events = 0
    /\ MONITOR_DIR = DefaultWatchDir
    /\ event = NoEvent
    /\ early = 0
    /\ posted = { }

\* ----------------------------------------------------------------- main
\* lines 140-141
MainValidate ==
    /\ mainPc = "validate"
    /\ mainPc' = IF validate_config(WEBHOOK_URL, dirExists)
                 THEN "start_observer" ELSE "returned"
    /\ UNCHANGED << cfgVars, obsVars, observer, queueCreated, queue, unfinished_tasks,
                    workerPc, sendVars, puts, events >>

\* lines 142-147
MainStartObserver ==
    /\ mainPc = "start_observer"
    /\ queueCreated' = TRUE
    /\ observer' = "running"
    /\ mainPc' = "start_worker"
    /\ UNCHANGED << cfgVars, obsVars, queue, unfinished_tasks, workerPc, sendVars,
                    puts, events >>

\* lines 149-150
MainStartWorker ==
    /\ mainPc = "start_worker"
    /\ workerPc' = "get"
    /\ mainPc' = "sleep_loop"
    /\ UNCHANGED << cfgVars, obsVars, observer, queueCreated, queue, unfinished_tasks,
                    sendVars, puts, events >>

\* lines 151-156: KeyboardInterrupt in the sleep loop, observer.stop()
MainInterrupt ==
    /\ mainPc = "sleep_loop"
    /\ observer' = "stopping"
    /\ mainPc' = "observer_join"
    /\ UNCHANGED << cfgVars, obsVars, queueCreated, queue, unfinished_tasks, workerPc,
                    sendVars, puts, events >>

\* main going on to the sentinel without waiting for the observer thread
MainObserverJoin_NoWait ==
    /\ mainPc = "observer_join"
    /\ mainPc' = "put_sentinel"
    /\ UNCHANGED << cfgVars, obsVars, observer, queueCreated, queue, unfinished_tasks,
                    workerPc, sendVars, puts, events >>

\* line 157: observer.join() returns once the observer thread has ended
MainObserverJoin ==
    /\ mainPc = "observer_join"
    /\ observer = "stopped"
    /\ mainPc' = "put_sentinel"
    /\ UNCHANGED << cfgVars, obsVars, observer, queueCreated, queue, unfinished_tasks,
                    workerPc, sendVars, puts, events >>

\* line 159: event_queue.put(None); main then blocks in line 160
MainPutSentinel ==
    /\ mainPc = "put_sentinel"
    /\ queue' = Append(queue, Sentinel)
    /\ puts' = Append(puts, Sentinel)
    /\ unfinished_tasks' = unfinished_tasks + 1
    /\ mainPc' = "join"
    /\ UNCHANGED << cfgVars, obsVars, observer, queueCreated, workerPc, sendVars,
                    events >>

\* line 160: the condition event_queue.join() waits for
JoinCanReturn == unfinished_tasks = 0

\* ------------------------------------------------------------- observer
\* the worker's first queue.get() has returned
FirstGetReturned == called # << >> \/ workerPc = "exited"

\* on_created without the is_directory test
on_created_NoDirCheck(src_path, is_directory) ==
    /\ observer \in { "running", "stopping" }
    /\ events < MaxEvents
    /\ events' = events + 1
    /\ event' = Event(src_path, is_directory)
    /\ early' = IF ~is_directory /\ ~FirstGetReturned THEN early + 1 ELSE early
    /\ queue' = Append(queue, FileItem(src_path))
    /\ puts' = Append(puts, FileItem(src_path))
    /\ unfinished_tasks' = unfinished_tasks + 1
    /\ UNCHANGED << cfgVars, mainVars, workerPc, sendVars >>

\* lines 123-126, called on the observer thread while it is alive
on_created(src_path, is_directory) ==
    /\ observer \in { "running", "stopping" }
    /\ events < MaxEvents
    /\ events' = events + 1
    /\ event' = Event(src_path, is_directory)
    /\ early' = IF ~is_directory /\ ~FirstGetReturned THEN early + 1 ELSE early
    /\ IF is_directory
       THEN UNCHANGED << queue, puts, unfinished_tasks >>
       ELSE /\ queue' = Append(queue, FileItem(src_path))
            /\ puts' = Append(puts, FileItem(src_path))
            /\ unfinished_tasks' = unfinished_tasks + 1
    /\ UNCHANGED << cfgVars, mainVars, workerPc, sendVars >>

\* the observer thread ends after observer.stop()
ObserverExit ==
    /\ observer = "stopping"
    /\ observer' = "stopped"
    /\ UNCHANGED << cfgVars, obsVars, mainPc, queueCreated, queue, unfinished_tasks,
                    workerPc, sendVars, puts, events >>

\* --------------------------------------------------------------- worker
\* a worker that dequeues the next item while a delivery is sleeping
WorkerGet_WhileSleeping ==
    /\ workerPc \in { "get", "sleep" }
    /\ queue # << >>
    /\ queue' = Tail(queue)
    /\ IF Head(queue).isNone
       THEN /\ workerPc' = "exited"
            /\ UNCHANGED sendVars
       ELSE /\ workerPc' = "post"
            /\ path' = Head(queue).path
            /\ url' = BuildUrl(Head(queue).path)
            /\ called' = Append(called, Head(queue).path)
            /\ log' = << >>
            /\ sleeps' = << >>
            /\ UNCHANGED << wait, ended, posted >>
    /\ UNCHANGED << cfgVars, obsVars, mainVars, unfinished_tasks, puts, events >>

\* lines 132-135 and 78-84: queue.get(), the sentinel test, and the entry
\* of send_discord_message up to its loop
WorkerGet ==
    /\ workerPc = "get"
    /\ queue # << >>
    /\ queue' = Tail(queue)
    /\ IF Head(queue).isNone
       THEN /\ workerPc' = "exited"
            /\ UNCHANGED sendVars
       ELSE /\ workerPc' = "post"
            /\ path' = Head(queue).path
            /\ url' = BuildUrl(Head(queue).path)
            /\ called' = Append(called, Head(queue).path)
            /\ log' = << >>
            /\ sleeps' = << >>
            /\ UNCHANGED << wait, ended, posted >>
    /\ UNCHANGED << cfgVars, obsVars, mainVars, unfinished_tasks, puts, events >>

\* a payload that changes from the second attempt on
Payload_PerAttempt == IF log = << >> THEN url ELSE url \o << "?" >>

\* lines 82-84: the payload, built once before the loop; it is the fixed
\* text around url, so it is represented by url
Payload == url

\* line 87: one POST of the payload, with its outcome
Attempt(out) == [ url |-> Payload, out |-> out ]

\* a retryable outcome is offered only while the delivery has attempts left
MayRetry == Len(log) + 1 < MaxAttempts

\* a transport error treated as a permanent failure
PostRaises_GiveUp ==
    /\ workerPc = "post"
    /\ MayRetry
    /\ posted' = posted \cup { << path, Payload >> }
    /\ log' = Append(log, Attempt(Raised))
    /\ ended' = ended + 1
    /\ workerPc' = "task_done"
    /\ UNCHANGED << cfgVars, obsVars, mainVars, queue, unfinished_tasks, path, url,
                    sleeps, wait, puts, called, events >>

\* lines 87-92: requests.post raises
PostRaises ==
    /\ workerPc = "post"
    /\ MayRetry
    /\ posted' = posted \cup { << path, Payload >> }
    /\ log' = Append(log, Attempt(Raised))
    /\ wait' = Fin(TransportRetryWait)
    /\ workerPc' = "sleep"
    /\ UNCHANGED << cfgVars, obsVars, mainVars, queue, unfinished_tasks, path, url,
                    sleeps, puts, called, ended, events >>

\* a success that falls through to another attempt
PostSuccess_Retries(st) ==
    /\ workerPc = "post"
    /\ st \in { 200, 204 }
    /\ posted' = posted \cup { << path, Payload >> }
    /\ log' = Append(log, Attempt(Response(st, NoHeader)))
    /\ IF MayRetry
       THEN workerPc' = "post" /\ ended' = ended
       ELSE workerPc' = "task_done" /\ ended' = ended + 1
    /\ UNCHANGED << cfgVars, obsVars, mainVars, queue, unfinished_tasks, path, url,
                    sleeps, wait, puts, called, events >>

\* lines 87, 94-96: status 200 or 204
PostSuccess(st) ==
    /\ workerPc = "post"
    /\ st \in { 200, 204 }
    /\ posted' = posted \cup { << path, Payload >> }
    /\ log' = Append(log, Attempt(Response(st, NoHeader)))
    /\ ended' = ended + 1
    /\ workerPc' = "task_done"
    /\ UNCHANGED << cfgVars, obsVars, mainVars, queue, unfinished_tasks, path, url,
                    sleeps, wait, puts, called, events >>

\* lines 87, 97-107: status 429, up to the call of time.sleep
PostRateLimited(h) ==
    /\ workerPc = "post"
    /\ SleepRaises(WaitSeconds(h)) \/ MayRetry
    /\ posted' = posted \cup { << path, Payload >> }
    /\ log' = Append(log, Attempt(Response(429, h)))
    /\ wait' = WaitSeconds(h)
    /\ workerPc' = "sleep"
    /\ UNCHANGED << cfgVars, obsVars, mainVars, queue, unfinished_tasks, path, url,
                    sleeps, puts, called, ended, events >>

\* any other status retried like a transport error
PostOther_Retries(st) ==
    /\ workerPc = "post"
    /\ st \notin { 200, 204, 429 }
    /\ MayRetry
    /\ posted' = posted \cup { << path, Payload >> }
    /\ log' = Append(log, Attempt(Response(st, NoHeader)))
    /\ wait' = Fin(TransportRetryWait)
    /\ workerPc' = "sleep"
    /\ UNCHANGED << cfgVars, obsVars, mainVars, queue, unfinished_tasks, path, url,
                    sleeps, puts, called, ended, events >>

\* lines 87, 110-114: any other status
PostOther(st) ==
    /\ workerPc = "post"
    /\ st \notin { 200, 204, 429 }
    /\ posted' = posted \cup { << path, Payload >> }
    /\ log' = Append(log, Attempt(Response(st, NoHeader)))
    /\ ended' = ended + 1
    /\ workerPc' = "task_done"
    /\ UNCHANGED << cfgVars, obsVars, mainVars, queue, unfinished_tasks, path, url,
                    sleeps, wait, puts, called, events >>

\* lines 91-92 and 108-109: time.sleep(...) and continue; an exception of
\* time.sleep leaves send_discord_message and worker, ending the thread
WorkerSleep ==
    /\ workerPc = "sleep"
    /\ IF SleepRaises(wait)
       THEN /\ workerPc' = "crashed"
            /\ UNCHANGED sleeps
       ELSE /\ workerPc' = "post"
            /\ sleeps' = Append(sleeps, wait.milli)
    /\ UNCHANGED << cfgVars, obsVars, mainVars, queue, unfinished_tasks, path, url,
                    log, wait, puts, called, ended, events, posted >>

\* a worker that calls task_done twice for one item
WorkerTaskDone_Twice ==
    /\ workerPc = "task_done"
    /\ unfinished_tasks' = unfinished_tasks - 2
    /\ workerPc' = "get"
    /\ path' = << >> /\ url' = << >> /\ log' = << >> /\ sleeps' = << >>
    /\ wait' = Fin(0)
    /\ UNCHANGED << cfgVars, obsVars, mainVars, queue, called, ended, posted,
                    puts, events >>

\* a worker that leaves its loop after the first delivery
WorkerTaskDone_Stop ==
    /\ workerPc = "task_done"
    /\ unfinished_tasks' = unfinished_tasks - 1
    /\ workerPc' = "exited"
    /\ path' = << >> /\ url' = << >> /\ log' = << >> /\ sleeps' = << >>
    /\ wait' = Fin(0)
    /\ UNCHANGED << cfgVars, obsVars, mainVars, queue, called, ended, posted,
                    puts, events >>

\* line 136 and the end of the loop iteration: the locals of the returned
\* send_discord_message call are gone
WorkerTaskDone ==
    /\ workerPc = "task_done"
    /\ unfinished_tasks' = unfinished_tasks - 1
    /\ workerPc' = "get"
    /\ path' = << >> /\ url' = << >> /\ log' = << >> /\ sleeps' = << >>
    /\ wait' = Fin(0)
    /\ UNCHANGED << cfgVars, obsVars, mainVars, queue, called, ended, posted,
                    puts, events >>

Next ==
    \/ MainValidate
    \/ MainStartObserver
    \/ MainStartWorker
    \/ MainInterrupt
    \/ MainObserverJoin
    \/ MainPutSentinel
    \/ \E p \in Paths : on_created(p, FALSE)
    \/ \E p \in DirPaths : on_created(p, TRUE)
    \/ ObserverExit
    \/ WorkerGet
    \/ PostRaises
    \/ \E st \in Statuses : PostSuccess(st)
    \/ \E h \in Headers : PostRateLimited(h)
    \/ \E st \in Statuses : PostOther(st)
    \/ WorkerSleep
    \/ WorkerTaskDone

Spec == Init /\ [][Next]_vars

\* LiveSpec: the pipeline with an endpoint that sends only Retry-After values
\* time.sleep accepts (absent, or a non-negative finite number) and ends
\* every delivery within MaxAttempts POSTs. The worker thread and the
\* straight-line start of main are scheduled fairly; the interrupt and the
\* filesystem are not.
LivePaths == { << "/","d","a","t","a","/","a" >> }
LiveHeaders == { NoHeader, << << "1",".","5" >> >> }

WorkerStep ==
    \/ WorkerGet
    \/ PostRaises
    \/ PostSuccess(200)
    \/ \E h \in LiveHeaders : PostRateLimited(h)
    \/ PostOther(500)
    \/ WorkerSleep
    \/ WorkerTaskDone

LiveNext ==
    \/ MainValidate
    \/ MainStartObserver
    \/ MainStartWorker
    \/ MainInterrupt
    \/ MainObserverJoin
    \/ MainPutSentinel
    \/ \E p \in LivePaths : on_created(p, FALSE)
    \/ \E p \in DirPaths : on_created(p, TRUE)
    \/ ObserverExit
    \/ WorkerStep

LiveSpec ==
    /\ Init
    /\ [][LiveNext]_vars
    /\ WF_vars(MainStartWorker)
    /\ WF_vars(WorkerStep)

\* UrlSpec: send_discord_message's URL construction on its own. The worker
\* waits in queue.get() and one file event for a path under MONITOR_DIR has
\* been put; the only step is the worker taking it (lines 132-135, 78-84).
UrlInit ==
    /\ WEBHOOK_URL = "https://discord/hook"
    /\ dirExists = TRUE
    /\ MONITOR_DIR \in WatchDirs
    /\ mainPc = "sleep_loop"
    /\ observer = "running"
    /\ queueCreated = TRUE
    /\ \E r \in Rests :
          /\ queue = << FileItem(MONITOR_DIR \o r) >>
          /\ puts = << FileItem(MONITOR_DIR \o r) >>
          /\ event = Event(MONITOR_DIR \o r, FALSE)
    /\ unfinished_tasks = 1
    /\ events = 1
    /\ early = 1
    /\ workerPc = "get"
    /\ path = << >>
    /\ url = << >>
    /\ log = << >>
    /\ sleeps = << >>
    /\ wait = Fin(0)
    /\ called = << >>
    /\ ended = 0
    /\ posted = { }

UrlNext == WorkerGet

UrlSpec == UrlInit /\ [][UrlNext]_vars

\* ------------------------------------------------------------ properties
\* paths of the file events put on the queue so far, in put order
PutPaths ==
    LET f == SelectSeq(puts, LAMBDA it : ~it.isNone)
    IN [ i \in 1..Len(f) |-> f[i].path ]

\* the worker thread has ended, by leaving its loop or by an exception
WorkerEnded == workerPc \in { "exited", "crashed" }

\* the current call of send_discord_message has returned
DeliveryReturned == workerPc \in { "task_done", "get", "exited" }

Is429(o) == ~o.raised /\ o.status = 429
IsOther(o) == ~o.raised /\ o.status \notin { 200, 204, 429 }

\* C1: N file events put by on_created lead to exactly N calls of
\* send_discord_message, in put order; stated for the end of the worker
\* thread: when it has ended, the calls made are the events put.
C1_EveryEventCalledInOrder == WorkerEnded => called = PutPaths

\* C2: after the interrupt main's final event_queue.join() returns once the
\* worker has drained the queue; stated for the state where the worker has
\* left its loop and main waits in join: the join condition holds there.
C2_FinalJoinReturns ==
    (mainPc = "join" /\ workerPc = "exited") => JoinCanReturn

\* C3: on shutdown the worker never ends while a file event put before the
\* sentinel is still in the queue.
C3_DrainedBeforeExit ==
    (mainPc = "join" /\ WorkerEnded)
        => \A i \in 1..Len(queue) : queue[i].isNone

\* C4: at most one sentinel is ever put, only after the observer has been
\* stopped and joined, and it is the last item of the queue's history.
C4_SentinelOnceAndLast ==
    \A i \in 1..Len(puts) :
        puts[i].isNone => /\ i = Len(puts)
                          /\ observer = "stopped"
                          /\ mainPc = "join"

C4_Witness ==
    /\ Len(puts) >= 2
    /\ puts[Len(puts)].isNone
    /\ ~puts[1].isNone

\* C5: send_discord_message never propagates an exception to the worker.
C5_SendNeverRaises == workerPc # "crashed"

\* C6: every 429 response is followed by a sleep of the Retry-After value
\* (2.0 when absent or unparseable) and then by another POST; k 429s and
\* then a 204 make k+1 POSTs, k sleeps and a returned delivery.
C6_RateLimitedRetries ==
    /\ \A i \in 1..Len(log) :
          Is429(log[i].out) =>
            \/ /\ i = Len(log)
               /\ workerPc = "sleep"
               /\ wait = WaitSeconds(log[i].out.header)
               /\ Len(sleeps) = i - 1
            \/ /\ i <= Len(sleeps)
               /\ sleeps[i] = WaitSeconds(log[i].out.header).milli
               /\ i < Len(log) \/ (workerPc = "post" /\ Len(sleeps) = i)
    /\ ( /\ Len(log) > 0
         /\ log[Len(log)].out = Response(204, NoHeader)
         /\ \A i \in 1..(Len(log) - 1) : Is429(log[i].out) )
       => (Len(sleeps) = Len(log) - 1 /\ DeliveryReturned)

\* C7: every transport error is followed by a sleep of 5 and another POST of
\* the same event; k transport errors and then a 200 make k+1 POSTs and
\* k sleeps of 5.
C7_TransportErrorRetries ==
    /\ \A i \in 1..Len(log) :
          log[i].out.raised =>
            \/ /\ i = Len(log)
               /\ workerPc = "sleep"
               /\ wait = Fin(5000)
               /\ Len(sleeps) = i - 1
            \/ /\ i <= Len(sleeps)
               /\ sleeps[i] = 5000
               /\ i < Len(log) \/ (workerPc = "post" /\ Len(sleeps) = i)
    /\ ( /\ Len(log) > 0
         /\ log[Len(log)].out = Response(200, NoHeader)
         /\ \A i \in 1..(Len(log) - 1) : log[i].out.raised )
       => /\ sleeps = [ i \in 1..(Len(log) - 1) |-> 5000 ]
          /\ DeliveryReturned

C7_Witness ==
    /\ log = << Attempt(Raised), Attempt(Raised),
                Attempt(Response(200, NoHeader)) >>
    /\ sleeps = << 5000, 5000 >>
    /\ workerPc = "task_done"

\* C8: a status other than 200, 204 and 429 ends the delivery at once: it is
\* the last POST of the delivery and no sleep follows it.
C8_OtherStatusEndsDelivery ==
    \A i \in 1..Len(log) :
        IsOther(log[i].out) => /\ i = Len(log)
                               /\ Len(sleeps) = i - 1
                               /\ DeliveryReturned

C8_Witness ==
    /\ Len(log) = 1
    /\ log[1].out = Response(500, NoHeader)
    /\ workerPc = "task_done"

\* C9: with DISCORD_WEBHOOK_URL unset or empty, or WATCH_DIRECTORY not a
\* directory, main returns without starting the observer or the worker,
\* without creating or writing the queue, and nothing is POSTed.
ConfigInvalid == WEBHOOK_URL \in { UrlUnset, "" } \/ ~dirExists

C9_InvalidConfigStartsNothing ==
    ConfigInvalid => /\ mainPc \in { "validate", "returned" }
                     /\ observer = "unstarted"
                     /\ workerPc = "unstarted"
                     /\ ~queueCreated
                     /\ queue = << >>
                     /\ puts = << >>
                     /\ called = << >>
                     /\ log = << >>

C9_Witness == ConfigInvalid /\ mainPc = "returned"

\* BuildUrl, tabulated over the paths of the creation events
UrlOfPath == [ p \in Paths |-> BuildUrl(p) ]

\* C10: while a call of send_discord_message is active, sleeping included,
\* the worker dequeues nothing and starts no other delivery, every POST made
\* is for the event being delivered, whatever is enqueued meanwhile; at most
\* one delivery is in flight.
C10_OneDeliveryInFlight ==
    [][ /\ Len(called') - ended' <= 1
        /\ workerPc \in { "post", "sleep" } =>
             /\ called' = called
             /\ path' = path
             /\ Len(queue') >= Len(queue)
             /\ SubSeq(queue', 1, Len(queue)) = queue
             /\ log' # log =>
                  /\ Len(log') = Len(log) + 1
                  /\ log'[Len(log')].url = UrlOfPath[path] ]_vars

C10_Witness ==
    /\ workerPc = "sleep"
    /\ queue # << >>
    /\ ~Head(queue).isNone
    /\ Len(called) = 1

\* C11: a delivery failure never stops the worker: a rejected event is
\* dropped, the worker goes on to the next get, and the worker thread ends
\* only by dequeuing the sentinel.
C11_FailureNeverStopsWorker ==
    [][ /\ (~WorkerEnded /\ WorkerEnded') =>
             (workerPc = "get" /\ queue # << >> /\ Head(queue).isNone)
        /\ (Len(log') = Len(log) + 1 /\ IsOther(log'[Len(log')].out)) =>
             (workerPc' = "task_done" /\ queue' = queue /\ called' = called)
        /\ (workerPc = "task_done" /\ workerPc' # workerPc) =>
             workerPc' = "get" ]_vars

RECURSIVE EncodeSpaces(_)
\* s with each space replaced by %20 and every other character unchanged
EncodeSpaces(s) ==
    IF s = << >> THEN << >>
    ELSE (IF Head(s) = " " THEN << "%","2","0" >> ELSE << Head(s) >>)
            \o EncodeSpaces(Tail(s))

\* p without its first n characters
DropPrefix(p, n) == SubSeq(p, n + 1, Len(p))

\* C12: for a path under the watch root /data the URL is the external base
\* followed by the path without its leading /data, spaces encoded, also
\* when the rest of the path contains the text /data.
C12_UrlStripsLeadingData ==
    (workerPc = "post" /\ MONITOR_DIR = << "/","d","a","t","a" >>)
        => url = ExternalBase \o EncodeSpaces(DropPrefix(path, 5))

\* C13: the prefix stripped is the configured watch directory: for a path
\* MONITOR_DIR + s the URL is the external base followed by s, spaces
\* encoded.
C13_UrlStripsConfiguredDir ==
    workerPc = "post"
        => url = ExternalBase \o EncodeSpaces(DropPrefix(path, Len(MONITOR_DIR)))

\* C14: on_created puts exactly one item, the event's src_path, for an event
\* that is not a directory, and leaves the queue alone for a directory;
\* a repeated path is put again.
C14_OnCreatedEnqueues ==
    [][ events' # events =>
          IF event'.is_directory
          THEN /\ queue' = queue
               /\ puts' = puts
               /\ unfinished_tasks' = unfinished_tasks
          ELSE /\ queue' = Append(queue, FileItem(event'.src_path))
               /\ puts' = Append(puts, FileItem(event'.src_path)) ]_vars

C14_Witness ==
    /\ Len(puts) = 2
    /\ ~puts[1].isNone
    /\ puts[1] = puts[2]
    /\ Len(queue) = 2

\* C15: all POSTs made for the same file path, in one delivery or in
\* several, carry the same URL and payload.
C15_SamePathSamePayload ==
    \A a \in posted, b \in posted : a[1] = b[1] => a[2] = b[2]

C15_Witness ==
    /\ Len(called) = 2
    /\ called[1] = called[2]
    /\ Len(log) = 2
    /\ Is429(log[1].out)

\* C16: every file event put before the worker's first get returned is
\* delivered; stated for the end of the worker thread: by then
\* send_discord_message has been called for each of them.
C16_EarlyEventsDelivered == WorkerEnded => Len(called) >= early

\* C17: with a fairly scheduled worker and an endpoint that ends every
\* delivery, every file event put on the queue is eventually dequeued and
\* its delivery eventually ends.
C17_EveryEventDelivered ==
    \A n \in 1..MaxEvents : (Len(PutPaths) >= n) ~> (ended >= n)

C17_Witness ==
    /\ ended = 2
    /\ Len(called) = 2
    /\ Len(sleeps) >= 1
    /\ queue = << >>

\* C18 as stated: in every state unfinished_tasks equals the number of items
\* put minus the number of file events whose delivery has ended, and is never
\* negative.
C18_CounterIsPutsMinusEnded ==
    /\ unfinished_tasks = Len(puts) - ended
    /\ unfinished_tasks >= 0

\* the worker stands between the return of send_discord_message (line 135)
\* and its task_done call (line 136)
TaskDonePending == workerPc = "task_done"

\* C18 as amended: every put adds one; task_done is called only by the
\* worker, once after each call of send_discord_message that returned and
\* never for the sentinel; so unfinished_tasks equals the number of items put
\* minus the number of returned deliveries, plus one while the task_done of
\* the latest returned delivery is still pending, and is never negative.
C18_CounterAccounting ==
    /\ [](/\ unfinished_tasks
               = Len(puts) - ended + (IF TaskDonePending THEN 1 ELSE 0)
          /\ unfinished_tasks >= 0)
    /\ [][ /\ Len(puts') # Len(puts) =>
                 (Len(puts') = Len(puts) + 1
                    /\ unfinished_tasks' = unfinished_tasks + 1)
           /\ unfinished_tasks' < unfinished_tasks =>
                 /\ unfinished_tasks' = unfinished_tasks - 1
                 /\ TaskDonePending /\ ~TaskDonePending'
                 /\ queue' = queue
           /\ (TaskDonePending /\ ~TaskDonePending') =>
                 unfinished_tasks' = unfinished_tasks - 1 ]_vars

C18_Witness ==
    /\ mainPc = "join"
    /\ workerPc = "exited"
    /\ ended = 2
    /\ Len(puts) = 3
    /\ unfinished_tasks = 1

IsSuccess(o) == ~o.raised /\ o.status \in { 200, 204 }

\* C19: a POST answered 200 or 204 is the last POST of its event; every POST
\* is made for the event dequeued last, before the next item is dequeued,
\* and each file event put is handed to send_discord_message at most once.
C19_NoResendAfterSuccess ==
    [][ /\ \A i \in 1..Len(log') : IsSuccess(log'[i].out) => i = Len(log')
        /\ Len(called') <= Len(PutPaths')
        /\ called' = SubSeq(PutPaths', 1, Len(called'))
        /\ Len(called') # Len(called) =>
             (log = << >> /\ log' = << >> /\ Len(queue') = Len(queue) - 1)
        /\ log' # log =>
             \/ /\ log' = << >>
                /\ workerPc = "task_done" /\ workerPc' # "post"
                /\ called' = called
             \/ /\ Len(log') = Len(log) + 1
                /\ SubSeq(log', 1, Len(log)) = log
                /\ \A i \in 1..Len(log) : ~IsSuccess(log[i].out)
                /\ workerPc = "post"
                /\ called # << >> /\ called' = called
                /\ path = called[Len(called)]
                /\ posted' = posted \cup { << path, log'[Len(log')].url >> }
                /\ queue' = queue ]_vars

C19_Witness ==
    /\ Len(log) >= 2
    /\ IsSuccess(log[Len(log)].out)
    /\ workerPc = "task_done"
    /\ queue # << >>

====
